---- MODULE Spec2Model ----
(***************************************************************************)
(* The buffer of crates/buffer: a byte-addressed text with an overlay of   *)
(* format spans (bold / italic / underline), edited by insert, remove,     *)
(* replace and the three attribute toggles.                                *)
(***************************************************************************)
EXTENDS Integers, Sequences, FiniteSets, TLC

\* ------------------------------------------------------------------ bounds
\* Longest text the buffer may hold, in bytes.
MaxLen == 3
\* Most spans a toggle may leave in the collection.
MaxSpans == 2

\* ------------------------------------------------------------------ values
\* Option<T>: None and Some(x).
Nothing == <<>>

Some(x) == <<x>>

\* Option<bool> as the three fields of a FormatSpan hold it.
None == "None"
SomeTrue == "Some(true)"

Attrs == {"bold", "italic", "underline"}

\* The texts an insert or a replace may be given.
InputTexts == {<<>>, <<"a">>, <<"a", "a">>}

\* std::ops::Range<usize>
Range(s, e) == [start |-> s, end |-> e]

range_is_empty(r) == r.start >= r.end

range_len(r) == IF r.start >= r.end THEN 0 ELSE r.end - r.start

Max(a, b) == IF a >= b THEN a ELSE b

Min(a, b) == IF a <= b THEN a ELSE b

\* ------------------------------------------------------------------ FormatSpan
FormatSpan(r, b, i, u) == [range |-> r, bold |-> b, italic |-> i, underline |-> u]

overlaps(span, other) ==
    span.range.start < other.end /\ span.range.end > other.start

\* shift_by_delta with the insert branch comparing `offset < start`: an insert at
\* the very start of a span grows the span instead of shifting it.
shift_by_delta_strict_insert(span, offset, delta) ==
    LET s == span.range.start
        e == span.range.end
    IN  IF delta > 0 THEN
            IF offset < s THEN [span EXCEPT !.range = Range(s + delta, e + delta)]
            ELSE IF offset < e THEN [span EXCEPT !.range = Range(s, e + delta)]
            ELSE span
        ELSE IF delta < 0 THEN
            LET delete_len == -delta
                delete_end == offset + delete_len
            IN  IF delete_end <= s THEN
                    [span EXCEPT !.range = Range(s - delete_len, e - delete_len)]
                ELSE IF offset >= e THEN span
                ELSE IF offset <= s /\ delete_end >= e THEN
                    [span EXCEPT !.range = Range(offset, offset)]
                ELSE IF offset <= s /\ delete_end < e THEN
                    [span EXCEPT !.range = Range(offset, e - delete_len)]
                ELSE IF offset > s /\ delete_end >= e THEN
                    [span EXCEPT !.range = Range(s, offset)]
                ELSE [span EXCEPT !.range = Range(s, e - delete_len)]
        ELSE span

\* shift_by_delta with the "overlaps start of span" branch forgetting to move the
\* start to the deletion point.
shift_by_delta_keeps_start(span, offset, delta) ==
    LET s == span.range.start
        e == span.range.end
    IN  IF delta > 0 THEN
            IF offset <= s THEN [span EXCEPT !.range = Range(s + delta, e + delta)]
            ELSE IF offset < e THEN [span EXCEPT !.range = Range(s, e + delta)]
            ELSE span
        ELSE IF delta < 0 THEN
            LET delete_len == -delta
                delete_end == offset + delete_len
            IN  IF delete_end <= s THEN
                    [span EXCEPT !.range = Range(s - delete_len, e - delete_len)]
                ELSE IF offset >= e THEN span
                ELSE IF offset <= s /\ delete_end >= e THEN
                    [span EXCEPT !.range = Range(offset, offset)]
                ELSE IF offset <= s /\ delete_end < e THEN
                    [span EXCEPT !.range = Range(s, e - delete_len)]
                ELSE IF offset > s /\ delete_end >= e THEN
                    [span EXCEPT !.range = Range(s, offset)]
                ELSE [span EXCEPT !.range = Range(s, e - delete_len)]
        ELSE span

\* FormatSpan::shift_by_delta: the span after an edit of `delta` bytes at `offset`.
shift_by_delta(span, offset, delta) ==
    LET s == span.range.start
        e == span.range.end
    IN  IF delta > 0 THEN
            IF offset <= s THEN [span EXCEPT !.range = Range(s + delta, e + delta)]
            ELSE IF offset < e THEN [span EXCEPT !.range = Range(s, e + delta)]
            ELSE span
        ELSE IF delta < 0 THEN
            LET delete_len == -delta
                delete_end == offset + delete_len
            IN  IF delete_end <= s THEN
                    [span EXCEPT !.range = Range(s - delete_len, e - delete_len)]
                ELSE IF offset >= e THEN span
                ELSE IF offset <= s /\ delete_end >= e THEN
                    [span EXCEPT !.range = Range(offset, offset)]
                ELSE IF offset <= s /\ delete_end < e THEN
                    [span EXCEPT !.range = Range(offset, e - delete_len)]
                ELSE IF offset > s /\ delete_end >= e THEN
                    [span EXCEPT !.range = Range(s, offset)]
                ELSE [span EXCEPT !.range = Range(s, e - delete_len)]
        ELSE span

\* ------------------------------------------------------------------ Vec helpers
\* One step of a stable insertion sort over <<key, element>> pairs: p goes after
\* every pair whose key is <= its own.
RECURSIVE insert_sorted(_, _)
insert_sorted(sorted, p) ==
    IF sorted = <<>> THEN <<p>>
    ELSE IF Head(sorted)[1] <= p[1]
         THEN <<Head(sorted)>> \o insert_sorted(Tail(sorted), p)
         ELSE <<p>> \o sorted

RECURSIVE sort_pairs(_)
sort_pairs(pairs) ==
    IF pairs = <<>> THEN <<>>
    ELSE insert_sorted(sort_pairs(SubSeq(pairs, 1, Len(pairs) - 1)), pairs[Len(pairs)])

\* slice::sort_by_key: a stable sort of seq, keys[i] being the key of seq[i].
sort_by_key(seq, keys) ==
    LET sorted == sort_pairs([i \in 1..Len(seq) |-> <<keys[i], seq[i]>>])
    IN  [i \in 1..Len(seq) |-> sorted[i][2]]

\* The sort keys |span| span.range.start of a collection.
span_starts(spans) == [i \in 1..Len(spans) |-> spans[i].range.start]

\* ------------------------------------------------------------------ Buffer
VARIABLES
    text,          \* Buffer.text: the bytes of the buffer
    format_spans,  \* Buffer.format_spans
    last,          \* the operation that produced this state, with its arguments
    prev,          \* format_spans as it was before that operation
    rep,           \* TRUE when that operation is a toggle repeating the toggle before it
    prev2,         \* when rep: format_spans as it was before the first of the two toggles
    selection,     \* Editor.selection
    moves,         \* the editor operations that led here, latest first, each with the
                   \* selection it started from
    call,          \* the function applied to the text, with its arguments and result
    marked_range   \* Editor.marked_range: Nothing, or Some selection

vars == <<text, format_spans, last, prev, rep, prev2, selection, moves, call, marked_range>>

\* What the operations of the buffer alone leave as it is.
editor_vars == <<selection, moves, call, marked_range>>

len == Len(text)

\* is_formatted_with without the gap test of its fold: the cursor advances to the
\* furthest end seen, whether or not the sub-interval starts at or before it.
is_formatted_with_no_gap_test(spans, range, attr) ==
    IF range_is_empty(range) THEN FALSE
    ELSE
        LET hit(span) == span[attr] = SomeTrue /\ overlaps(span, range)
            clip(span) == <<Max(span.range.start, range.start), Min(span.range.end, range.end)>>
            kept == SelectSeq(spans, hit)
            clipped == [i \in 1..Len(kept) |-> clip(kept[i])]
            coverage == sort_by_key(clipped, [i \in 1..Len(clipped) |-> clipped[i][1]])
            fold[i \in 0..Len(coverage)] ==
                IF i = 0 THEN range.start
                ELSE Max(fold[i - 1], coverage[i][2])
        IN  fold[Len(coverage)] >= range.end

\* Buffer::is_formatted_with, for the attribute field `attr`.
is_formatted_with(spans, range, attr) ==
    IF range_is_empty(range) THEN FALSE
    ELSE
        LET hit(span) == span[attr] = SomeTrue /\ overlaps(span, range)
            clip(span) == <<Max(span.range.start, range.start), Min(span.range.end, range.end)>>
            kept == SelectSeq(spans, hit)
            clipped == [i \in 1..Len(kept) |-> clip(kept[i])]
            coverage == sort_by_key(clipped, [i \in 1..Len(clipped) |-> clipped[i][1]])
            \* try_fold: -1 stands for the fold having stopped with None
            fold[i \in 0..Len(coverage)] ==
                IF i = 0 THEN range.start
                ELSE IF fold[i - 1] = -1 THEN -1
                ELSE IF coverage[i][1] <= fold[i - 1] THEN Max(fold[i - 1], coverage[i][2])
                ELSE -1
            cursor == fold[Len(coverage)]
        IN  cursor # -1 /\ cursor >= range.end


\* should_split without the test of the attribute: every overlapping span is split.
should_split_any_attribute(span, range, attr, is_fully) ==
    overlaps(span, range)

\* The closure should_split of the toggles.
should_split(span, range, attr, is_fully) ==
    overlaps(span, range)
        /\ IF is_fully THEN span[attr] = SomeTrue ELSE span[attr] # None

\* The flat_map closure keeping only the part before the range: the part after it
\* is lost.
split_parts_no_tail(span, range, attr, is_fully) ==
    IF ~should_split(span, range, attr, is_fully) THEN <<span>>
    ELSE
        IF span.range.start < range.start
            THEN <<[span EXCEPT !.range = Range(span.range.start, range.start)]>>
            ELSE <<>>

\* What the flat_map closure of the toggles returns for one span.
split_parts(span, range, attr, is_fully) ==
    IF ~should_split(span, range, attr, is_fully) THEN <<span>>
    ELSE
        (IF span.range.start < range.start
            THEN <<[span EXCEPT !.range = Range(span.range.start, range.start)]>>
            ELSE <<>>)
        \o
        (IF span.range.end > range.end
            THEN <<[span EXCEPT !.range = Range(range.end, span.range.end)]>>
            ELSE <<>>)

RECURSIVE flat_map_split(_, _, _, _)
flat_map_split(spans, range, attr, is_fully) ==
    IF spans = <<>> THEN <<>>
    ELSE split_parts(Head(spans), range, attr, is_fully)
            \o flat_map_split(Tail(spans), range, attr, is_fully)

\* The pushed span as a copy-and-paste slip would build it: the underline toggle
\* still sets italic.
new_span_copy_paste(range, attr) ==
    FormatSpan(range,
               IF attr = "bold" THEN SomeTrue ELSE None,
               IF attr \in {"italic", "underline"} THEN SomeTrue ELSE None,
               IF attr = "underline" THEN SomeTrue ELSE None)

\* The span a toggle of `attr` pushes.
new_span(range, attr) ==
    FormatSpan(range,
               IF attr = "bold" THEN SomeTrue ELSE None,
               IF attr = "italic" THEN SomeTrue ELSE None,
               IF attr = "underline" THEN SomeTrue ELSE None)

\* The toggle pushing its span whether or not the range was fully covered.
toggle_always_pushes(spans, range, attr) ==
    LET is_fully == is_formatted_with(spans, range, attr)
        parts == flat_map_split(spans, range, attr, is_fully)
        pushed == Append(parts, new_span(range, attr))
    IN  sort_by_key(pushed, span_starts(pushed))

\* The body the three toggles share, for the attribute field `attr`.
toggle(spans, range, attr) ==
    LET is_fully == is_formatted_with(spans, range, attr)
        parts == flat_map_split(spans, range, attr, is_fully)
        pushed == Append(parts, new_span(range, attr))
    IN  IF ~is_fully
        THEN sort_by_key(pushed, span_starts(pushed))
        ELSE parts

toggle_bold(spans, range) == toggle(spans, range, "bold")

toggle_italic(spans, range) == toggle(spans, range, "italic")

toggle_underline(spans, range) == toggle(spans, range, "underline")

\* The span half of Buffer::insert.
insert_spans(spans, offset, n) ==
    [i \in 1..Len(spans) |-> shift_by_delta(spans[i], offset, n)]

\* Buffer::remove without its retain: collapsed spans stay in the collection.
remove_spans_no_retain(spans, range) ==
    [i \in 1..Len(spans) |-> shift_by_delta(spans[i], range.start, -range_len(range))]

\* The span half of Buffer::remove.
remove_spans(spans, range) ==
    LET shifted == [i \in 1..Len(spans) |-> shift_by_delta(spans[i], range.start, -range_len(range))]
        non_empty(span) == ~range_is_empty(span.range)
    IN  SelectSeq(shifted, non_empty)

\* The span half of Buffer::replace.
replace_spans(spans, range, n) ==
    insert_spans(remove_spans(spans, range), range.start, n)

\* The continuation bytes (10xxxxxx) of the code points of more than one byte the model uses:
\* U+00E9 (c3 a9), U+20AC (e2 82 ac) and U+1F600 (f0 9f 98 80).
is_continuation(byte) == byte \in {"a9", "82", "ac", "9f", "98", "80"}

\* The byte offsets at which the code points of the text start.
CharStarts(t) == {i \in 0..(Len(t) - 1) : ~is_continuation(t[i + 1])}

\* Rope::len_chars
rope_len_chars(t) == Cardinality(CharStarts(t))

\* Rope::char_to_byte: the byte offset at which the code point starts.
rope_char_to_byte(t, char_idx) ==
    IF char_idx >= rope_len_chars(t) THEN Len(t)
    ELSE CHOOSE i \in CharStarts(t) :
            Cardinality({j \in CharStarts(t) : j < i}) = char_idx

\* Rope::insert and Rope::remove take char indices, and panic on an index beyond
\* len_chars and on a range that starts after its end.
rope_insert_panics(t, char_idx) == char_idx > rope_len_chars(t)

rope_remove_panics(t, char_range) ==
    \/ char_range.start > char_range.end
    \/ char_range.end > rope_len_chars(t)

\* TextBuffer::insert: the offset is handed to Rope::insert, as a char index.
text_insert(t, offset, new_text) ==
    LET at == rope_char_to_byte(t, offset)
    IN  SubSeq(t, 1, at) \o new_text \o SubSeq(t, at + 1, Len(t))

\* TextBuffer::remove: the range is handed to Rope::remove, as a range of char
\* indices.
text_remove(t, range) ==
    SubSeq(t, 1, rope_char_to_byte(t, range.start))
        \o SubSeq(t, rope_char_to_byte(t, range.end) + 1, Len(t))

\* The ranges within the text: 0 <= start <= end <= len.
Ranges == {r \in [start : 0..len, end : 0..len] : r.start <= r.end}

\* SelectionGoal::None and SelectionGoal::HorizontalPosition(col). The column is
\* an f64 that only ever holds a column number: a small non-negative integer,
\* which `as f64` and `as usize` carry over exactly.
GoalNone == <<>>

HorizontalPosition(col) == <<col>>

\* Selection::new(start, end)
Selection(start, end) ==
    [start |-> start, end |-> end, reversed |-> FALSE, goal |-> GoalNone]

\* Selection::cursor(position)
cursor(position) == Selection(position, position)

\* Selection::head
head(s) == IF s.reversed THEN s.start ELSE s.end

\* Selection::tail
tail(s) == IF s.reversed THEN s.end ELSE s.start

\* Selection::is_empty, which is Selection::is_cursor
is_empty(s) == s.start = s.end

\* No function has been applied.
NoCall == [fn |-> "none"]

\* The history variables hold no operation.
NoOp == [op |-> "none", range |-> Range(0, 0), len |-> 0]

Idle == last = NoOp

Init ==
    /\ text = <<>>
    /\ format_spans = <<>>
    /\ last = NoOp
    /\ prev = <<>>
    /\ rep = FALSE
    /\ prev2 = <<>>
    /\ selection = cursor(0)
    /\ moves = <<>>
    /\ call = NoCall
    /\ marked_range = Nothing

\* The history variables record one operation at a time (or a toggle and its
\* repetition); Forget clears them, leaving the buffer as it is, before the next
\* operation is recorded.
Forget ==
    /\ ~Idle
    /\ last' = NoOp
    /\ prev' = <<>>
    /\ rep' = FALSE
    /\ prev2' = <<>>
    /\ UNCHANGED <<text, format_spans>>
    /\ UNCHANGED editor_vars

\* Buffer::insert(offset, new_text)
Insert(offset, new_text) ==
    /\ Idle
    /\ len + Len(new_text) <= MaxLen
    /\ text' = text_insert(text, offset, new_text)
    /\ format_spans' = insert_spans(format_spans, offset, Len(new_text))
    /\ last' = [op |-> "insert", range |-> Range(offset, offset), len |-> Len(new_text)]
    /\ prev' = format_spans
    /\ rep' = FALSE
    /\ prev2' = <<>>
    /\ UNCHANGED editor_vars

\* Buffer::remove(range)
Remove(range) ==
    /\ Idle
    /\ text' = text_remove(text, range)
    /\ format_spans' = remove_spans(format_spans, range)
    /\ last' = [op |-> "remove", range |-> range, len |-> 0]
    /\ prev' = format_spans
    /\ rep' = FALSE
    /\ prev2' = <<>>
    /\ UNCHANGED editor_vars

\* Buffer::replace(range, new_text)
Replace(range, new_text) ==
    /\ Idle
    /\ len - range_len(range) + Len(new_text) <= MaxLen
    /\ text' = text_insert(text_remove(text, range), range.start, new_text)
    /\ format_spans' = replace_spans(format_spans, range, Len(new_text))
    /\ last' = [op |-> "replace", range |-> range, len |-> Len(new_text)]
    /\ prev' = format_spans
    /\ rep' = FALSE
    /\ prev2' = <<>>
    /\ UNCHANGED editor_vars

\* A toggle `op` over `range` leaving `after`: recorded as a first toggle, or as the
\* repetition of the toggle the history variables hold.
ToggleStep(op, range, after, cap) ==
    /\ Idle \/ (~rep /\ last.op = op /\ last.range = range)
    /\ Len(after) <= cap
    /\ format_spans' = after
    /\ text' = text
    /\ last' = [op |-> op, range |-> range, len |-> 0]
    /\ prev' = format_spans
    /\ rep' = ~Idle
    /\ prev2' = IF Idle THEN <<>> ELSE prev
    /\ UNCHANGED editor_vars

\* Buffer::toggle_bold(range), as any caller of the buffer may call it.
BufferToggleBold(range, cap) ==
    ToggleStep("toggle_bold", range, toggle_bold(format_spans, range), cap)

\* Buffer::toggle_italic(range)
BufferToggleItalic(range, cap) ==
    ToggleStep("toggle_italic", range, toggle_italic(format_spans, range), cap)

\* Buffer::toggle_underline(range)
BufferToggleUnderline(range, cap) ==
    ToggleStep("toggle_underline", range, toggle_underline(format_spans, range), cap)

\* Editor::toggle_bold with the selection at `range`: returns early on an empty
\* selection, and otherwise toggles the buffer over the selection's range.
ToggleBold(range, cap) ==
    /\ ~range_is_empty(range)
    /\ BufferToggleBold(range, cap)

\* Editor::toggle_italic
ToggleItalic(range, cap) ==
    /\ ~range_is_empty(range)
    /\ BufferToggleItalic(range, cap)

\* Editor::toggle_underline
ToggleUnderline(range, cap) ==
    /\ ~range_is_empty(range)
    /\ BufferToggleUnderline(range, cap)

\* The edits of the text, which every specification shares.
Edit ==
    \/ \E offset \in 0..len, new_text \in InputTexts : Insert(offset, new_text)
    \/ \E range \in Ranges : Remove(range)
    \/ \E range \in Ranges, new_text \in InputTexts : Replace(range, new_text)
    \/ Forget

\* The buffer as the editor drives it: toggles over non-empty selections only.
Next ==
    \/ Edit
    \/ \E range \in Ranges : ToggleBold(range, MaxSpans)
    \/ \E range \in Ranges : ToggleItalic(range, MaxSpans)
    \/ \E range \in Ranges : ToggleUnderline(range, MaxSpans)

Spec == Init /\ [][Next]_vars

\* The buffer's public API called directly: toggles over any range, empty ones included.
NextAPI ==
    \/ Edit
    \/ \E range \in Ranges : BufferToggleBold(range, MaxSpans)
    \/ \E range \in Ranges : BufferToggleItalic(range, MaxSpans)
    \/ \E range \in Ranges : BufferToggleUnderline(range, MaxSpans)

SpecAPI == Init /\ [][NextAPI]_vars

\* ------------------------------------------------------------------ text storage
\* Longest text with lines the functions of crates/text are applied to, in bytes.
MaxBytes == 4

\* The bytes of those texts: a letter, and the bytes of the line breaks.
LineBytes == {"a", "\n", "\r"}

\* The texts of at most n bytes over the alphabet.
RECURSIVE TextsUpTo(_, _)
TextsUpTo(alphabet, n) ==
    IF n = 0 THEN {<<>>}
    ELSE LET shorter == TextsUpTo(alphabet, n - 1)
         IN  shorter \cup {Append(t, b) : t \in shorter, b \in alphabet}

\* ropey's line breaks among these bytes, each by the index of its last byte:
\* LF, CR LF as one break, and a CR no LF follows.
LineBreakEnds(t) ==
    {i \in 1..Len(t) :
        \/ t[i] = "\n"
        \/ t[i] = "\r" /\ (i = Len(t) \/ t[i + 1] # "\n")}

\* Rope::len_lines: one line more than there are line breaks.
rope_len_lines(t) == Cardinality(LineBreakEnds(t)) + 1

\* Rope::byte_to_line: the line of the byte offset, which is the number of line
\* breaks that end at or before it.
rope_byte_to_line(t, offset) ==
    Cardinality({i \in LineBreakEnds(t) : i <= offset})

\* Rope::line_to_byte: the offset at which the line starts.
rope_line_to_byte(t, row) ==
    IF row = 0 THEN 0
    ELSE CHOOSE i \in LineBreakEnds(t) :
            Cardinality({j \in LineBreakEnds(t) : j <= i}) = row

\* Rope::line: the bytes of the line, its line break included.
rope_line(t, row) ==
    LET line_end == IF row + 1 < rope_len_lines(t)
                    THEN rope_line_to_byte(t, row + 1)
                    ELSE Len(t)
    IN  SubSeq(t, rope_line_to_byte(t, row) + 1, line_end)

\* String::pop when the string ends with the byte.
pop_if_ends_with(s, byte) ==
    IF Len(s) > 0 /\ s[Len(s)] = byte THEN SubSeq(s, 1, Len(s) - 1) ELSE s

\* TextBuffer::line: the line without its trailing "\n", and without the "\r"
\* before that "\n".
line(t, line_idx) ==
    IF line_idx >= rope_len_lines(t) THEN Nothing
    ELSE LET whole == rope_line(t, line_idx)
         IN  IF Len(whole) > 0 /\ whole[Len(whole)] = "\n"
             THEN Some(pop_if_ends_with(pop_if_ends_with(whole, "\n"), "\r"))
             ELSE Some(whole)

\* TextBuffer::line_len
line_len(t, row) ==
    IF line(t, row) = Nothing THEN 0 ELSE Len(line(t, row)[1])

\* TextPoint::new(row, column)
TextPoint(row, column) == [row |-> row, column |-> column]

\* TextBuffer::max_point
max_point(t) ==
    LET len_lines == rope_len_lines(t)
    IN  IF len_lines = 0 THEN TextPoint(0, 0)
        ELSE TextPoint(len_lines - 1, Len(rope_line(t, len_lines - 1)))

\* Buffer::line_count
line_count(t) == max_point(t).row + 1

\* TextBuffer::offset_to_point
offset_to_point(t, offset) ==
    LET clamped == Min(offset, Len(t))
        row == rope_byte_to_line(t, clamped)
        line_start == rope_line_to_byte(t, row)
    IN  TextPoint(row, clamped - line_start)

\* TextBuffer::point_to_offset clamping the column to the length of the line
\* without its line break.
point_to_offset_clamp_line_len(t, point) ==
    LET len_lines == rope_len_lines(t)
        row == Min(point.row, len_lines - 1)
    IN  IF len_lines = 0 THEN 0
        ELSE rope_line_to_byte(t, row) + Min(point.column, line_len(t, row))

\* TextBuffer::point_to_offset
point_to_offset(t, point) ==
    LET len_lines == rope_len_lines(t)
        row == Min(point.row, len_lines - 1)
        line_start == rope_line_to_byte(t, row)
        line_len_bytes == Len(rope_line(t, row))
        column == Min(point.column, line_len_bytes)
    IN  IF len_lines = 0 THEN 0 ELSE line_start + column

\* ------------------------------------------------------------------ movement
\* movement::left stepping back one byte from column 0 as well.
left_ignores_column(t, offset) ==
    IF offset = 0 THEN Nothing ELSE Some(offset - 1)

\* movement::left
left(t, offset) ==
    LET point == offset_to_point(t, offset)
        prev_row == point.row - 1
        prev_line_len == line_len(t, prev_row)
    IN  IF offset = 0 THEN Nothing
        ELSE IF point.column > 0 THEN Some(offset - 1)
        ELSE IF point.row > 0
             THEN Some(point_to_offset(t, TextPoint(prev_row, prev_line_len)))
        ELSE Nothing

\* movement::right stepping one byte on from the end of a line as well.
right_ignores_line_len(t, offset) ==
    IF offset >= Len(t) THEN Nothing ELSE Some(offset + 1)

\* movement::right
right(t, offset) ==
    LET point == offset_to_point(t, offset)
        next_row == point.row + 1
    IN  IF offset >= Len(t) THEN Nothing
        ELSE IF point.column < line_len(t, point.row) THEN Some(offset + 1)
        ELSE IF point.row < max_point(t).row
             THEN Some(point_to_offset(t, TextPoint(next_row, 0)))
        ELSE Nothing

\* The column a vertical move aims at: the goal's, or the current one.
goal_column(goal, current_point) ==
    IF goal = GoalNone THEN current_point.column ELSE goal[1]

\* movement::up aiming at the current column whatever the goal.
up_ignores_goal(t, offset, goal) ==
    LET current_point == offset_to_point(t, offset)
        prev_row == current_point.row - 1
        new_column == Min(current_point.column, line_len(t, prev_row))
    IN  IF current_point.row = 0
        THEN <<point_to_offset(t, TextPoint(0, 0)),
               HorizontalPosition(current_point.column)>>
        ELSE <<point_to_offset(t, TextPoint(prev_row, new_column)),
               HorizontalPosition(current_point.column)>>

\* movement::up: the new offset and the new goal.
up(t, offset, goal) ==
    LET current_point == offset_to_point(t, offset)
        column == goal_column(goal, current_point)
        prev_row == current_point.row - 1
        prev_line_len == line_len(t, prev_row)
        new_column == Min(column, prev_line_len)
    IN  IF current_point.row = 0
        THEN <<point_to_offset(t, TextPoint(0, 0)), HorizontalPosition(column)>>
        ELSE <<point_to_offset(t, TextPoint(prev_row, new_column)),
               HorizontalPosition(column)>>

\* movement::down staying at the start of the last row.
down_stays_at_line_start(t, offset, goal) ==
    LET current_point == offset_to_point(t, offset)
        column == goal_column(goal, current_point)
        next_row == current_point.row + 1
        new_column == Min(column, line_len(t, next_row))
    IN  IF current_point.row >= line_count(t) - 1
        THEN <<point_to_offset(t, TextPoint(current_point.row, 0)),
               HorizontalPosition(column)>>
        ELSE <<point_to_offset(t, TextPoint(next_row, new_column)),
               HorizontalPosition(column)>>

\* movement::down: the new offset and the new goal.
down(t, offset, goal) ==
    LET current_point == offset_to_point(t, offset)
        column == goal_column(goal, current_point)
        last_line_len == line_len(t, current_point.row)
        next_row == current_point.row + 1
        next_line_len == line_len(t, next_row)
        new_column == Min(column, next_line_len)
    IN  IF current_point.row >= line_count(t) - 1
        THEN <<point_to_offset(t, TextPoint(current_point.row, last_line_len)),
               HorizontalPosition(column)>>
        ELSE <<point_to_offset(t, TextPoint(next_row, new_column)),
               HorizontalPosition(column)>>

\* ------------------------------------------------------------------ editor
\* The texts the editor may be given as input: a letter, a newline and U+00E9,
\* a code point of two bytes.
EditorInputs == {<<"a">>, <<"\n">>, <<"c3", "a9">>}

\* Option::unwrap_or
unwrap_or(option, default) == IF option = Nothing THEN default ELSE option[1]

\* Editor::move_to: the selection becomes a cursor at the offset.
move_to(s, offset) == cursor(offset)

\* Editor::select_to swapping the ends without flipping `reversed`.
select_to_keeps_reversed(s, offset) ==
    LET updated == IF s.reversed THEN [s EXCEPT !.start = offset]
                   ELSE [s EXCEPT !.end = offset]
        ordered == IF updated.end < updated.start
                   THEN [updated EXCEPT !.start = updated.end,
                                        !.end = updated.start]
                   ELSE updated
    IN  [ordered EXCEPT !.goal = GoalNone]

\* Editor::select_to moving `end` to the offset whichever end is the head.
select_to_moves_end(s, offset) ==
    LET updated == [s EXCEPT !.end = offset]
        ordered == IF updated.end < updated.start
                   THEN [updated EXCEPT !.start = updated.end,
                                        !.end = updated.start,
                                        !.reversed = ~updated.reversed]
                   ELSE updated
    IN  [ordered EXCEPT !.goal = GoalNone]

\* Editor::select_to
select_to(s, offset) ==
    LET updated == IF s.reversed THEN [s EXCEPT !.start = offset]
                   ELSE [s EXCEPT !.end = offset]
        ordered == IF updated.end < updated.start
                   THEN [updated EXCEPT !.start = updated.end,
                                        !.end = updated.start,
                                        !.reversed = ~updated.reversed]
                   ELSE updated
    IN  [ordered EXCEPT !.goal = GoalNone]

\* The goal a vertical move starts from: the selection's when it is a cursor.
move_goal(s) == IF ~is_empty(s) THEN GoalNone ELSE s.goal

\* Editor::move_up: the goal movement::up returns is stored in the selection,
\* and then move_to replaces the selection.
move_up(t, s) ==
    LET moved == up(t, head(s), move_goal(s))
    IN  move_to([s EXCEPT !.goal = moved[2]], moved[1])

\* Editor::move_down
move_down(t, s) ==
    LET moved == down(t, head(s), move_goal(s))
    IN  move_to([s EXCEPT !.goal = moved[2]], moved[1])

\* Editor::move_left stepping left from the start of a non-empty selection too.
move_left_always_steps(t, s) ==
    move_to([s EXCEPT !.goal = GoalNone], unwrap_or(left(t, s.start), s.start))

\* Editor::move_left
move_left(t, s) ==
    LET target == IF is_empty(s) THEN unwrap_or(left(t, s.start), s.start)
                  ELSE s.start
    IN  move_to([s EXCEPT !.goal = GoalNone], target)

\* Editor::move_right
move_right(t, s) ==
    LET target == IF is_empty(s) THEN unwrap_or(right(t, s.end), s.end)
                  ELSE s.end
    IN  move_to([s EXCEPT !.goal = GoalNone], target)

\* The editor with its buffer, as one value: the text and the spans of the buffer,
\* the selection, and whether a call into the rope has panicked.
EditorOf(t, spans, s) ==
    [text |-> t, format_spans |-> spans, selection |-> s, marked_range |-> Nothing,
     panic |-> FALSE]

\* Buffer::remove(range) on the buffer of the editor value.
buffer_remove(e, range) ==
    IF e.panic \/ rope_remove_panics(e.text, range) THEN [e EXCEPT !.panic = TRUE]
    ELSE [e EXCEPT !.text = text_remove(e.text, range),
                   !.format_spans = remove_spans(e.format_spans, range)]

\* Buffer::insert(offset, new_text)
buffer_insert(e, offset, new_text) ==
    IF e.panic \/ rope_insert_panics(e.text, offset) THEN [e EXCEPT !.panic = TRUE]
    ELSE [e EXCEPT !.text = text_insert(e.text, offset, new_text),
                   !.format_spans = insert_spans(e.format_spans, offset, Len(new_text))]

\* Buffer::replace(range, new_text)
buffer_replace(e, range, new_text) ==
    buffer_insert(buffer_remove(e, range), range.start, new_text)

\* Selection::range
selection_range(s) == Range(s.start, s.end)

\* The selection is set, unless the buffer has panicked before.
with_selection(e, s) == IF e.panic THEN e ELSE [e EXCEPT !.selection = s]

\* Editor::handle_input leaving the cursor after the end of the replaced range,
\* not after its start.
handle_input_from_end(e, new_text) ==
    LET range == selection_range(e.selection)
    IN  with_selection(buffer_replace(e, range, new_text),
                       cursor(range.end + Len(new_text)))

\* Editor::handle_input(new_text)
handle_input(e, new_text) ==
    LET range == selection_range(e.selection)
    IN  with_selection(buffer_replace(e, range, new_text),
                       cursor(range.start + Len(new_text)))

\* Editor::backspace leaving the goal as it is when there is nothing to delete.
backspace_keeps_goal(e) ==
    LET s == IF is_empty(e.selection) /\ e.selection.start > 0
             THEN Selection(e.selection.start - 1, e.selection.start)
             ELSE e.selection
    IN  IF ~is_empty(s)
        THEN with_selection(buffer_remove(e, selection_range(s)), cursor(s.start))
        ELSE e

\* Editor::backspace
backspace(e) ==
    LET s == IF is_empty(e.selection) /\ e.selection.start > 0
             THEN Selection(e.selection.start - 1, e.selection.start)
             ELSE e.selection
    IN  IF ~is_empty(s)
        THEN with_selection(buffer_remove(e, selection_range(s)),
                            [cursor(s.start) EXCEPT !.goal = GoalNone])
        ELSE with_selection(e, [s EXCEPT !.goal = GoalNone])

\* Editor::delete_to_beginning_of_line
delete_to_beginning_of_line(e) ==
    LET at == e.selection.start
        point == offset_to_point(e.text, at)
        line_start == point_to_offset(e.text, TextPoint(point.row, 0))
    IN  IF at = line_start THEN e
        ELSE backspace(with_selection(e, Selection(line_start, at)))

\* Editor::delete
delete(e) ==
    LET buffer_len == Len(e.text)
        s == IF is_empty(e.selection) /\ e.selection.end < buffer_len
             THEN Selection(e.selection.end, e.selection.end + 1)
             ELSE e.selection
    IN  IF ~is_empty(s)
        THEN with_selection(buffer_remove(e, selection_range(s)),
                            [cursor(s.start) EXCEPT !.goal = GoalNone])
        ELSE with_selection(e, [s EXCEPT !.goal = GoalNone])

\* Editor::delete_to_end_of_line
delete_to_end_of_line(e) ==
    LET at == e.selection.start
        point == offset_to_point(e.text, at)
        line_end == point_to_offset(e.text, TextPoint(point.row, line_len(e.text, point.row)))
    IN  IF at = line_end THEN e
        ELSE delete(with_selection(e, Selection(at, line_end)))

\* Editor::newline
newline(e) ==
    LET s == e.selection
        removed == IF ~is_empty(s) THEN buffer_remove(e, selection_range(s)) ELSE e
    IN  with_selection(buffer_insert(removed, s.start, <<"\n">>),
                       [cursor(s.start + 1) EXCEPT !.goal = GoalNone])

\* Editor::toggle_bold: nothing on an empty selection, and the toggle of the
\* buffer over the range of the selection otherwise.
editor_toggle_bold(e) ==
    IF is_empty(e.selection) THEN e
    ELSE [e EXCEPT !.format_spans = toggle_bold(e.format_spans, selection_range(e.selection))]

\* The editor as the variables hold it.
Editor == [EditorOf(text, format_spans, selection) EXCEPT !.marked_range = marked_range]

\* `moves` holds no operation.
Rested == moves = <<>>

\* A call into the rope has panicked: the program is gone.
Panicked == moves # <<>> /\ moves[1].panic

\* The latest operation of the editor is a vertical move, and the only one held.
AfterVerticalMove ==
    /\ Len(moves) = 1
    /\ moves[1].op \in {"move_up", "move_down"}

\* An operation of the editor taking it to `after`, recorded with its argument
\* and the editor it started from. The text, the selection and the spans stay
\* within MaxBytes.
EditorStep(op, offset, after) ==
    /\ Len(after.text) <= MaxBytes
    /\ after.selection.end <= MaxBytes
    /\ \A i \in 1..Len(after.format_spans) : after.format_spans[i].range.end <= MaxBytes
    /\ text' = after.text
    /\ format_spans' = after.format_spans
    /\ selection' = after.selection
    /\ marked_range' = after.marked_range
    /\ moves' = <<[op |-> op, offset |-> offset, before |-> selection,
                   text |-> text, format_spans |-> format_spans,
                   marked_range |-> marked_range,
                   panic |-> after.panic]>> \o moves
    /\ UNCHANGED <<last, prev, rep, prev2, call>>

\* An operation that moves the selection and clears the spans of the buffer.
SelectionStepClearsSpans(op, offset, s) ==
    EditorStep(op, offset, [Editor EXCEPT !.selection = s, !.format_spans = <<>>])

\* An operation that moves the selection: the buffer is not handed to it mutably.
SelectionStep(op, offset, s) ==
    EditorStep(op, offset, [Editor EXCEPT !.selection = s])

\* Editor::handle_input(new_text)
HandleInput(new_text) ==
    /\ Rested
    /\ EditorStep("handle_input", Len(new_text), handle_input(Editor, new_text))

\* Editor::backspace
Backspace ==
    /\ Rested
    /\ EditorStep("backspace", 0, backspace(Editor))

\* Editor::delete_to_beginning_of_line
DeleteToBeginningOfLine ==
    /\ Rested
    /\ EditorStep("delete_to_beginning_of_line", 0, delete_to_beginning_of_line(Editor))

\* Editor::delete
Delete ==
    /\ Rested
    /\ EditorStep("delete", 0, delete(Editor))

\* Editor::delete_to_end_of_line
DeleteToEndOfLine ==
    /\ Rested
    /\ EditorStep("delete_to_end_of_line", 0, delete_to_end_of_line(Editor))

\* Editor::newline
Newline ==
    /\ Rested
    /\ EditorStep("newline", 0, newline(Editor))

\* Editor::toggle_bold, taken while the buffer has no span.
EditorToggleBold ==
    /\ Rested
    /\ format_spans = <<>>
    /\ EditorStep("toggle_bold", 0, editor_toggle_bold(Editor))

\* A mouse press at the offset: Editor::move_to
MoveTo(offset) ==
    /\ Rested
    /\ SelectionStep("move_to", offset, move_to(selection, offset))

\* The latest operation of the editor is a select_to, and the only one held.
AfterSelectTo ==
    /\ Len(moves) = 1
    /\ moves[1].op = "select_to"

\* Editor::mouse_dragged to the offset, right after a select_to: one more
\* select_to of the same drag.
MouseDragged(offset) ==
    /\ AfterSelectTo
    /\ SelectionStep("select_to", offset, select_to(selection, offset))

\* A mouse drag, or a press with shift, to the offset: Editor::select_to
SelectTo(offset) ==
    /\ Rested
    /\ SelectionStep("select_to", offset, select_to(selection, offset))

\* Editor::move_up, alone or right after another vertical move.
MoveUp ==
    /\ Rested \/ (AfterVerticalMove /\ ~Panicked)
    /\ SelectionStep("move_up", 0, move_up(text, selection))

\* Editor::move_down
MoveDown ==
    /\ Rested \/ (AfterVerticalMove /\ ~Panicked)
    /\ SelectionStep("move_down", 0, move_down(text, selection))

\* Editor::move_left
MoveLeft ==
    /\ Rested
    /\ SelectionStep("move_left", 0, move_left(text, selection))

\* Editor::move_right
MoveRight ==
    /\ Rested
    /\ SelectionStep("move_right", 0, move_right(text, selection))

\* `moves` is cleared, leaving the editor as it is, before the next operation is
\* recorded; after a panic there is no next operation.
ForgetMoves ==
    /\ ~Rested
    /\ ~Panicked
    /\ moves' = <<>>
    /\ UNCHANGED <<text, format_spans, last, prev, rep, prev2, selection, call, marked_range>>

\* The editor as its key bindings, the mouse and the text input drive it, the
\* toggles of the formatting aside.
NextEditor ==
    \/ \E new_text \in EditorInputs : HandleInput(new_text)
    \/ Backspace
    \/ DeleteToBeginningOfLine
    \/ Delete
    \/ DeleteToEndOfLine
    \/ Newline
    \/ \E offset \in 0..len : MoveTo(offset)
    \/ \E offset \in 0..len : SelectTo(offset)
    \/ MoveUp
    \/ MoveDown
    \/ MoveLeft
    \/ MoveRight
    \/ ForgetMoves

SpecEditor == Init /\ [][NextEditor]_vars

\* The editor with the bold toggle among its key bindings.
NextEditorFormat ==
    \/ NextEditor
    \/ EditorToggleBold

SpecEditorFormat == Init /\ [][NextEditorFormat]_vars

\* The editor with drags of the mouse that go on over several events.
NextEditorDrag ==
    \/ NextEditor
    \/ \E offset \in 0..len : MouseDragged(offset)

SpecEditorDrag == Init /\ [][NextEditorDrag]_vars

\* The goals a caller of change_selections gives the selection.
GoalInputs == {HorizontalPosition(1)}

\* Editor::change_selections with a closure that sets the goal of the selection.
ChangeSelections(goal) ==
    /\ Rested
    /\ SelectionStep("change_selections", 0, [selection EXCEPT !.goal = goal])

\* The editor as any caller of its public API drives it.
NextEditorAPI ==
    \/ NextEditor
    \/ \E goal \in GoalInputs : ChangeSelections(goal)

SpecEditorAPI == Init /\ [][NextEditorAPI]_vars

\* ------------------------------------------------------------------ functions of the text
\* The texts with lines.
LineTexts == TextsUpTo(LineBytes, MaxBytes)

\* The points a caller may ask for, beyond the last row and the longest line too.
Points == {TextPoint(row, column) : row \in 0..(MaxBytes + 1), column \in 0..(MaxBytes + 1)}

\* The goals a vertical move may be given.
Goals == {GoalNone} \cup {HorizontalPosition(col) : col \in 0..MaxBytes}

\* Any text with lines, before any function is applied to it.
InitText ==
    /\ text \in LineTexts
    /\ format_spans = <<>>
    /\ last = NoOp
    /\ prev = <<>>
    /\ rep = FALSE
    /\ prev2 = <<>>
    /\ selection = cursor(0)
    /\ moves = <<>>
    /\ call = NoCall
    /\ marked_range = Nothing

\* A function is applied to the text, which it leaves as it is.
Apply(record) ==
    /\ call = NoCall
    /\ call' = record
    /\ UNCHANGED <<text, format_spans, last, prev, rep, prev2, selection, moves, marked_range>>

\* offset_to_point(offset), and point_to_offset of the point it returns.
OffsetToPointAndBack(offset) ==
    Apply([fn |-> "offset_to_point", offset |-> offset,
           point |-> offset_to_point(text, offset),
           result |-> point_to_offset(text, offset_to_point(text, offset))])

\* point_to_offset(point)
PointToOffset(point) ==
    Apply([fn |-> "point_to_offset", point |-> point,
           result |-> point_to_offset(text, point)])

\* movement::left(buffer, offset)
Left(offset) ==
    Apply([fn |-> "left", offset |-> offset, result |-> left(text, offset)])

\* movement::right(buffer, offset)
Right(offset) ==
    Apply([fn |-> "right", offset |-> offset, result |-> right(text, offset)])

\* movement::up(buffer, offset, goal)
Up(offset, goal) ==
    Apply([fn |-> "up", offset |-> offset, goal |-> goal,
           result |-> up(text, offset, goal)])

\* movement::down(buffer, offset, goal)
Down(offset, goal) ==
    Apply([fn |-> "down", offset |-> offset, goal |-> goal,
           result |-> down(text, offset, goal)])

\* The result is dropped before the next function is applied.
ForgetCall ==
    /\ call # NoCall
    /\ call' = NoCall
    /\ UNCHANGED <<text, format_spans, last, prev, rep, prev2, selection, moves, marked_range>>

NextText ==
    \/ \E offset \in 0..len : OffsetToPointAndBack(offset)
    \/ \E point \in Points : PointToOffset(point)
    \/ \E offset \in 0..len : Left(offset)
    \/ \E offset \in 0..len : Right(offset)
    \/ \E offset \in 0..len, goal \in Goals : Up(offset, goal)
    \/ \E offset \in 0..len, goal \in Goals : Down(offset, goal)
    \/ ForgetCall

SpecText == InitText /\ [][NextText]_vars

\* ------------------------------------------------------------------ UTF-8 and UTF-16
\* Most code points of a text the conversions are applied to.
MaxChars == 3

\* The UTF-8 bytes, in hexadecimal, of "a", U+00E9, U+20AC and U+1F600: code
\* points of one to four bytes, the last one a surrogate pair in UTF-16.
Utf8Chars ==
    {<<"61">>, <<"c3", "a9">>, <<"e2", "82", "ac">>, <<"f0", "9f", "98", "80">>}

\* The texts of at most n of these code points.
RECURSIVE Utf8TextsUpTo(_)
Utf8TextsUpTo(n) ==
    IF n = 0 THEN {<<>>}
    ELSE LET shorter == Utf8TextsUpTo(n - 1)
         IN  shorter \cup {t \o c : t \in shorter, c \in Utf8Chars}

\* Rope::byte_to_char: the index of the code point the byte belongs to, and
\* len_chars for the offset at the end.
rope_byte_to_char(t, byte_idx) ==
    IF byte_idx >= Len(t) THEN rope_len_chars(t)
    ELSE Cardinality({i \in CharStarts(t) : i <= byte_idx}) - 1

\* Rope::char_to_utf16_cu: the UTF-16 code units of the code points before the
\* index: one each, and two for a code point of four bytes.
rope_char_to_utf16_cu(t, char_idx) ==
    LET before == {i \in CharStarts(t) : i < rope_char_to_byte(t, char_idx)}
    IN  Cardinality(before) + Cardinality({i \in before : t[i + 1] = "f0"})

\* Rope::utf16_cu_to_char: the index of the code point the code unit belongs to.
rope_utf16_cu_to_char(t, utf16_idx) ==
    CHOOSE c \in 0..rope_len_chars(t) :
        /\ rope_char_to_utf16_cu(t, c) <= utf16_idx
        /\ c = rope_len_chars(t) \/ rope_char_to_utf16_cu(t, c + 1) > utf16_idx

\* TextBuffer::byte_to_utf16 counting one code unit for every code point.
byte_to_utf16_counts_chars(t, byte_offset) == rope_byte_to_char(t, byte_offset)

\* TextBuffer::byte_to_utf16
byte_to_utf16(t, byte_offset) ==
    LET char_offset == rope_byte_to_char(t, byte_offset)
    IN  rope_char_to_utf16_cu(t, char_offset)

\* TextBuffer::utf16_to_byte
utf16_to_byte(t, utf16_offset) ==
    LET char_offset == rope_utf16_cu_to_char(t, utf16_offset)
    IN  rope_char_to_byte(t, char_offset)

\* The length of the text in UTF-16 code units.
Utf16Len(t) == rope_char_to_utf16_cu(t, rope_len_chars(t))

\* Any text of these code points, before any function is applied to it.
InitUtf16 ==
    /\ text \in Utf8TextsUpTo(MaxChars)
    /\ format_spans = <<>>
    /\ last = NoOp
    /\ prev = <<>>
    /\ rep = FALSE
    /\ prev2 = <<>>
    /\ selection = cursor(0)
    /\ moves = <<>>
    /\ call = NoCall
    /\ marked_range = Nothing

\* utf16_to_byte(utf16_offset), and byte_to_utf16 of the byte offset it returns.
Utf16ToByteAndBack(utf16_offset) ==
    Apply([fn |-> "utf16_to_byte", offset |-> utf16_offset,
           byte |-> utf16_to_byte(text, utf16_offset),
           result |-> byte_to_utf16(text, utf16_to_byte(text, utf16_offset))])

\* byte_to_utf16(byte_offset), and utf16_to_byte of the UTF-16 offset it returns.
ByteToUtf16AndBack(byte_offset) ==
    Apply([fn |-> "byte_to_utf16", offset |-> byte_offset,
           utf16 |-> byte_to_utf16(text, byte_offset),
           result |-> utf16_to_byte(text, byte_to_utf16(text, byte_offset))])

NextUtf16 ==
    \/ \E utf16_offset \in 0..Utf16Len(text) : Utf16ToByteAndBack(utf16_offset)
    \/ \E byte_offset \in 0..len : ByteToUtf16AndBack(byte_offset)
    \/ ForgetCall

SpecUtf16 == InitUtf16 /\ [][NextUtf16]_vars

\* ------------------------------------------------------------------ the coverage test
\* The attributes of the spans the coverage test is applied to.
CoverageAttrs == {"bold", "italic"}

\* Any span over at most MaxLen bytes that asserts one of these attributes.
CoverageSpans ==
    {FormatSpan(Range(start, end),
                IF attr = "bold" THEN SomeTrue ELSE None,
                IF attr = "italic" THEN SomeTrue ELSE None,
                None) :
        start \in 0..MaxLen, end \in 0..MaxLen, attr \in CoverageAttrs}

\* The collections of at most n spans, in any order.
RECURSIVE CollectionsUpTo(_)
CollectionsUpTo(n) ==
    IF n = 0 THEN {<<>>}
    ELSE LET shorter == CollectionsUpTo(n - 1)
         IN  shorter \cup {Append(spans, span) : spans \in shorter,
                                                 span \in {c \in CoverageSpans : c.range.start <= c.range.end}}

\* Any collection of spans, before the coverage test is applied to it.
InitCoverage ==
    /\ text = <<>>
    /\ format_spans \in CollectionsUpTo(MaxSpans)
    /\ last = NoOp
    /\ prev = <<>>
    /\ rep = FALSE
    /\ prev2 = <<>>
    /\ selection = cursor(0)
    /\ moves = <<>>
    /\ call = NoCall
    /\ marked_range = Nothing

\* Buffer::is_formatted_with(range, predicate), the predicate being the test of
\* the attribute.
IsFormattedWith(range, attr) ==
    Apply([fn |-> "is_formatted_with", range |-> range, attr |-> attr,
           result |-> is_formatted_with(format_spans, range, attr)])

NextCoverage ==
    \/ \E start \in 0..MaxLen, end \in 0..MaxLen, attr \in CoverageAttrs :
          IsFormattedWith(Range(start, end), attr)
    \/ ForgetCall

SpecCoverage == InitCoverage /\ [][NextCoverage]_vars

\* ------------------------------------------------------------------ the buffer over UTF-8 text
\* The texts a caller of the buffer inserts: a letter and U+00E9, a code point of
\* two bytes.
BufferInputs == {<<"a">>, <<"c3", "a9">>}

\* The byte offsets on the code-point boundaries of the text, its end included.
CharBoundaries(t) == CharStarts(t) \cup {Len(t)}

\* The ranges within the text with both ends on a code-point boundary.
BoundaryRanges ==
    {r \in [start : CharBoundaries(text), end : CharBoundaries(text)] : r.start <= r.end}

\* Buffer::toggle_bold and Buffer::toggle_italic on the buffer of the editor value.
buffer_toggle(e, range, attr) ==
    IF e.panic THEN e
    ELSE [e EXCEPT !.format_spans = toggle(e.format_spans, range, attr)]

\* A call of the buffer taking it to `after`, recorded with its arguments and the
\* buffer it started from. The text and the spans stay within MaxBytes, the
\* collection within MaxSpans.
BufferCall(fn, range, new_text, after) ==
    /\ call = NoCall
    /\ Len(after.text) <= MaxBytes
    /\ Len(after.format_spans) <= MaxSpans
    /\ \A i \in 1..Len(after.format_spans) : after.format_spans[i].range.end <= MaxBytes
    /\ text' = after.text
    /\ format_spans' = after.format_spans
    /\ call' = [fn |-> fn, range |-> range, new_text |-> new_text,
                text |-> text, format_spans |-> format_spans, panic |-> after.panic]
    /\ UNCHANGED <<last, prev, rep, prev2, selection, moves, marked_range>>

\* Buffer::insert(offset, new_text)
InsertUtf8(offset, new_text) ==
    BufferCall("insert", Range(offset, offset), new_text,
               buffer_insert(Editor, offset, new_text))

\* Buffer::remove(range)
RemoveUtf8(range) ==
    BufferCall("remove", range, <<>>, buffer_remove(Editor, range))

\* Buffer::replace(range, new_text)
ReplaceUtf8(range, new_text) ==
    BufferCall("replace", range, new_text, buffer_replace(Editor, range, new_text))

\* Buffer::insert(offset, new_text), and Buffer::remove of the bytes inserted.
InsertThenRemove(offset, new_text) ==
    BufferCall("insert_then_remove", Range(offset, offset), new_text,
               buffer_remove(buffer_insert(Editor, offset, new_text),
                             Range(offset, offset + Len(new_text))))

\* Buffer::toggle_bold(range) and Buffer::toggle_italic(range), over a range that
\* is not empty.
ToggleUtf8(range, attr) ==
    /\ ~range_is_empty(range)
    /\ BufferCall("toggle_" \o attr, range, <<>>, buffer_toggle(Editor, range, attr))

\* The record of the call is dropped before the next call; after a panic there
\* is no next call.
ForgetBufferCall ==
    /\ call # NoCall
    /\ ~call.panic
    /\ call' = NoCall
    /\ UNCHANGED <<text, format_spans, last, prev, rep, prev2, selection, moves, marked_range>>

\* The buffer as its callers drive it, with offsets on code-point boundaries.
NextUtf8 ==
    \/ \E offset \in CharBoundaries(text), new_text \in BufferInputs :
          InsertUtf8(offset, new_text)
    \/ \E range \in BoundaryRanges : RemoveUtf8(range)
    \/ \E range \in BoundaryRanges, new_text \in BufferInputs : ReplaceUtf8(range, new_text)
    \/ \E offset \in CharBoundaries(text), new_text \in BufferInputs :
          InsertThenRemove(offset, new_text)
    \/ \E range \in BoundaryRanges, attr \in CoverageAttrs : ToggleUtf8(range, attr)
    \/ ForgetBufferCall

SpecUtf8 == Init /\ [][NextUtf8]_vars

\* ------------------------------------------------------------------ input method
\* The texts the input method composes and commits: a letter and U+00E9.
ImeInputs == {<<"a">>, <<"c3", "a9">>}

\* The ranges of UTF-16 code units within a text.
Utf16Ranges(t) ==
    {r \in [start : 0..Utf16Len(t), end : 0..Utf16Len(t)] : r.start <= r.end}

\* None, and Some of each of the values.
OptionOf(values) == {Nothing} \cup {Some(v) : v \in values}

\* The ranges the input method asks to replace: none, or one that reaches the end
\* of the text.
ImeRanges(t) == OptionOf({r \in Utf16Ranges(t) : r.end = Utf16Len(t)})

\* Editor::range_from_utf16
range_from_utf16(t, utf16_range) ==
    Range(utf16_to_byte(t, utf16_range.start), utf16_to_byte(t, utf16_range.end))

\* Editor::unmark_text
unmark_text(e) == [e EXCEPT !.marked_range = Nothing]

\* Editor::replace_text_in_range(range_utf16, new_text): the selection becomes the
\* range given, or else the marked range, the marked range is cleared, and the
\* text goes through handle_input.
replace_text_in_range(e, range_utf16, new_text) ==
    LET s == IF range_utf16 # Nothing
             THEN LET range == range_from_utf16(e.text, range_utf16[1])
                  IN  Selection(range.start, range.end)
             ELSE IF e.marked_range # Nothing THEN e.marked_range[1]
             ELSE e.selection
    IN  handle_input([e EXCEPT !.selection = s, !.marked_range = Nothing], new_text)

\* Editor::replace_and_mark_text_in_range(range_utf16, new_text, new_selection)
replace_and_mark_text_in_range(e, range_utf16, new_text, new_selection) ==
    LET range == IF range_utf16 # Nothing
                 THEN range_from_utf16(e.text, range_utf16[1])
                 ELSE selection_range(e.selection)
        replaced == buffer_replace(e, range, new_text)
        new_marked_range ==
            IF new_selection # Nothing
            THEN Some(Selection(range.start + new_selection[1].start,
                                range.start + new_selection[1].end))
            ELSE Nothing
    IN  IF replaced.panic THEN replaced
        ELSE [replaced EXCEPT !.selection = cursor(range.start + Len(new_text)),
                              !.marked_range = new_marked_range]

\* An operation of the input method, recorded with its arguments in the place of
\* the offset. The marked range stays within MaxBytes.
ImeStep(op, range_utf16, new_text, new_selection, after) ==
    /\ after.marked_range # Nothing => after.marked_range[1].end <= MaxBytes
    /\ EditorStep(op,
                  [range_utf16 |-> range_utf16, new_text |-> new_text,
                   new_selection |-> new_selection],
                  after)

\* Editor::unmark_text
UnmarkText ==
    /\ Rested
    /\ ImeStep("unmark_text", Nothing, <<>>, Nothing, unmark_text(Editor))

\* Editor::replace_text_in_range
ReplaceTextInRange(range_utf16, new_text) ==
    /\ Rested
    /\ ImeStep("replace_text_in_range", range_utf16, new_text, Nothing,
            replace_text_in_range(Editor, range_utf16, new_text))

\* Editor::replace_and_mark_text_in_range
ReplaceAndMarkTextInRange(range_utf16, new_text, new_selection) ==
    /\ Rested
    /\ ImeStep("replace_and_mark_text_in_range", range_utf16, new_text, new_selection,
            replace_and_mark_text_in_range(Editor, range_utf16, new_text, new_selection))

\* The editor with the input method among its callers, and the operations of the
\* editor that a composition meets.
NextIme ==
    \/ \E new_text \in ImeInputs : HandleInput(new_text)
    \/ Backspace
    \/ Delete
    \/ \E offset \in 0..len : SelectTo(offset)
    \/ MoveLeft
    \/ MoveRight
    \/ ForgetMoves
    \/ UnmarkText
    \/ /\ Rested
       /\ \E range_utf16 \in ImeRanges(text), new_text \in ImeInputs :
             ReplaceTextInRange(range_utf16, new_text)
    \/ /\ Rested
       /\ \E range_utf16 \in ImeRanges(text), new_text \in ImeInputs :
             \E new_selection \in OptionOf(Utf16Ranges(new_text)) :
                 ReplaceAndMarkTextInRange(range_utf16, new_text, new_selection)

SpecIme == Init /\ [][NextIme]_vars

\* ------------------------------------------------------------------ properties
\* The attribute is effective at byte k: some span covering k asserts it.
Effective(spans, attr, k) ==
    \E i \in 1..Len(spans) :
        /\ spans[i][attr] = SomeTrue
        /\ spans[i].range.start <= k
        /\ spans[i].range.end >= k + 1

Offsets == 0..(MaxLen - 1)

\* The bytes at which the attribute is effective.
Coverage(spans, attr) == {k \in Offsets : Effective(spans, attr, k)}

\* The bytes of a range.
Bytes(r) == {k \in Offsets : r.start <= k /\ k < r.end}

IsToggle == last.op \in {"toggle_bold", "toggle_italic", "toggle_underline"}

\* The attribute the recorded toggle is about.
LastAttr ==
    IF last.op = "toggle_bold" THEN "bold"
    ELSE IF last.op = "toggle_italic" THEN "italic"
    ELSE "underline"

\* C1: a toggle of A over a non-empty range R turns A off at every byte of R when
\* every byte of R was A-effective before it, and on at every byte of R otherwise.
C1_ToggleTurnsOffOrOn ==
    (IsToggle /\ ~range_is_empty(last.range)) =>
        IF \A k \in Bytes(last.range) : Effective(prev, LastAttr, k)
        THEN \A k \in Bytes(last.range) : ~Effective(format_spans, LastAttr, k)
        ELSE \A k \in Bytes(last.range) : Effective(format_spans, LastAttr, k)

\* A toggle has acted on a range that was A-effective at some bytes but not at all.
C1_Witness ==
    /\ IsToggle
    /\ \E k \in Bytes(last.range) : Effective(prev, LastAttr, k)
    /\ \E k \in Bytes(last.range) : ~Effective(prev, LastAttr, k)
    /\ \A k \in Bytes(last.range) : Effective(format_spans, LastAttr, k)

\* The one span {range = R, A = Some(true), the other two fields None}.
OnlySpan(r, attr) ==
    [range |-> [start |-> r.start, end |-> r.end],
     bold |-> IF attr = "bold" THEN "Some(true)" ELSE "None",
     italic |-> IF attr = "italic" THEN "Some(true)" ELSE "None",
     underline |-> IF attr = "underline" THEN "Some(true)" ELSE "None"]

\* C2: from a collection with no spans, the first toggle of A over a non-empty R
\* leaves exactly the one span {R, A = Some(true), others None}, and the second
\* toggle of A over the same R leaves no span.
C2_ToggleTwiceFromEmpty ==
    /\ (IsToggle /\ ~rep /\ ~range_is_empty(last.range) /\ prev = <<>>) =>
            format_spans = <<OnlySpan(last.range, LastAttr)>>
    /\ (IsToggle /\ rep /\ ~range_is_empty(last.range) /\ prev2 = <<>>) =>
            (prev = <<OnlySpan(last.range, LastAttr)>> /\ format_spans = <<>>)

\* The second of two toggles from an empty collection has acted.
C2_Witness ==
    /\ IsToggle /\ rep
    /\ prev2 = <<>>
    /\ Len(prev) = 1
    /\ format_spans = <<>>

\* C3 as stated: two toggles of A over the same R in a row leave the A-coverage as
\* it was before the two.
C3_DoubleToggleRestoresCoverage ==
    (IsToggle /\ rep) =>
        Coverage(format_spans, LastAttr) = Coverage(prev2, LastAttr)

\* C3 as amended: two toggles of A over the same non-empty R in a row leave the
\* A-coverage as it was before the two when R was then A-effective at all of its
\* bytes or at none of them; when R was A-effective at only some of its bytes, they
\* leave A off over all of R and as it was outside R.
C3_DoubleToggleCoverage ==
    (IsToggle /\ rep /\ ~range_is_empty(last.range)) =>
        LET before == Coverage(prev2, LastAttr)
            after == Coverage(format_spans, LastAttr)
            R == Bytes(last.range)
        IN  IF R \subseteq before \/ R \cap before = {}
            THEN after = before
            ELSE after = before \ R

\* Two toggles in a row have acted on a range that was partly A-effective.
C3_Witness ==
    /\ IsToggle /\ rep
    /\ Bytes(last.range) \cap Coverage(prev2, LastAttr) # {}
    /\ ~(Bytes(last.range) \subseteq Coverage(prev2, LastAttr))
    /\ Coverage(prev2, LastAttr) \ Bytes(last.range) # {}

\* C4: a toggle of attribute B over a non-empty range leaves every other attribute
\* A effective at exactly the bytes where it was effective before.
C4_OtherAttributesUntouched ==
    (IsToggle /\ ~range_is_empty(last.range)) =>
        \A attr \in Attrs \ {LastAttr} :
            \A k \in Offsets : Effective(format_spans, attr, k) = Effective(prev, attr, k)

\* B has been toggled on over a strict sub-range of a span asserting another
\* attribute A, and both hold on that sub-range.
C4_Witness ==
    /\ IsToggle
    /\ \E i \in 1..Len(prev) :
        /\ prev[i][LastAttr] = None
        /\ prev[i].range.start <= last.range.start
        /\ last.range.end <= prev[i].range.end
        /\ prev[i].range # last.range
    /\ \E attr \in Attrs \ {LastAttr} :
        \A k \in Bytes(last.range) :
            Effective(format_spans, attr, k) /\ Effective(format_spans, LastAttr, k)

\* C5: a toggle over an empty range leaves the span collection exactly as it was.
C5_EmptyToggleIsNoOp ==
    (IsToggle /\ range_is_empty(last.range)) => format_spans = prev

\* What the insert rule makes of a span [s, e), for an insert of n bytes at offset.
InsertRule(span, offset, n) ==
    IF offset <= span.range.start
    THEN [start |-> span.range.start + n, end |-> span.range.end + n]
    ELSE IF offset < span.range.end
    THEN [start |-> span.range.start, end |-> span.range.end + n]
    ELSE [start |-> span.range.start, end |-> span.range.end]

\* C6: insert(offset, text) of L bytes keeps every span, in order and with its
\* attribute fields, and re-anchors [s, e) to [s+L, e+L) if offset <= s, else to
\* [s, e+L) if offset < e, else leaves it as it is.
C6_InsertReanchors ==
    (last.op = "insert") =>
        /\ Len(format_spans) = Len(prev)
        /\ \A i \in 1..Len(prev) :
            /\ format_spans[i].range = InsertRule(prev[i], last.range.start, last.len)
            /\ \A attr \in Attrs : format_spans[i][attr] = prev[i][attr]

\* An insert of at least one byte has shifted one span and left another, which ends
\* at or before the insertion point, as it was.
C6_Witness ==
    /\ last.op = "insert"
    /\ last.len > 0
    /\ \E i, j \in 1..Len(prev) :
        /\ last.range.start <= prev[i].range.start
        /\ format_spans[i].range.start = prev[i].range.start + last.len
        /\ prev[j].range.end <= last.range.start
        /\ format_spans[j] = prev[j]

\* What the six-case rule makes of a span [s, e) when [d, d+L) is removed:
\* <<>> when the span collapses and is dropped, else the one range left.
RemoveRule(span, d, L) ==
    LET s == span.range.start
        e == span.range.end
    IN  IF d + L <= s THEN <<[start |-> s - L, end |-> e - L]>>
        ELSE IF d >= e THEN <<[start |-> s, end |-> e]>>
        ELSE IF d <= s /\ d + L >= e THEN <<>>
        ELSE IF d <= s /\ s < d + L /\ d + L < e THEN <<[start |-> d, end |-> e - L]>>
        ELSE IF s < d /\ d < e /\ e <= d + L THEN <<[start |-> s, end |-> d]>>
        ELSE <<[start |-> s, end |-> e - L]>>

\* The collection the six-case rule leaves: each span's image, in order.
RECURSIVE RemoveRuleAll(_, _, _)
RemoveRuleAll(spans, d, L) ==
    IF spans = <<>> THEN <<>>
    ELSE LET img == RemoveRule(Head(spans), d, L)
         IN  (IF img = <<>> THEN <<>> ELSE <<[Head(spans) EXCEPT !.range = img[1]]>>)
                \o RemoveRuleAll(Tail(spans), d, L)

\* C7: remove(range) of L > 0 bytes at d re-anchors every span by the six-case rule
\* and drops the spans the removed interval contains.
C7_RemoveReanchors ==
    (last.op = "remove" /\ range_len(last.range) > 0) =>
        format_spans = RemoveRuleAll(prev, last.range.start, range_len(last.range))

\* A remove has dropped one span it contained and cut another at its start.
C7_Witness ==
    /\ last.op = "remove"
    /\ Len(prev) = 2
    /\ Len(format_spans) = 1
    /\ \E i \in 1..2 :
        /\ last.range.start <= prev[i].range.start
        /\ prev[i].range.start < last.range.end
        /\ last.range.end < prev[i].range.end
        /\ format_spans[1].range = [start |-> last.range.start,
                                    end |-> prev[i].range.end - range_len(last.range)]

\* The spans of the collection that lie within the range.
Within(spans, r) ==
    {i \in 1..Len(spans) : r.start <= spans[i].range.start /\ spans[i].range.end <= r.end}

\* The length of the text before the recorded replace.
LenBeforeReplace == len - last.len + range_len(last.range)

\* C8: replace(range, text) removes every span that lies within the range, whatever
\* the text: the collection is left with exactly the spans that did not, and a
\* replace of the whole text leaves it empty.
C8_ReplaceDropsContainedSpans ==
    (last.op = "replace") =>
        /\ Len(format_spans) = Len(prev) - Cardinality(Within(prev, last.range))
        /\ (last.range = [start |-> 0, end |-> LenBeforeReplace]) => format_spans = <<>>

\* A replace by a non-empty text has dropped the one span within its range and kept
\* another.
C8_Witness ==
    /\ last.op = "replace"
    /\ last.len > 0
    /\ Len(prev) = 2
    /\ Cardinality(Within(prev, last.range)) = 1
    /\ Len(format_spans) = 1

\* C9: after every mutation the collection is ordered by non-decreasing range start.
C9_SortedByStart ==
    \A i, j \in 1..Len(format_spans) :
        i < j => format_spans[i].range.start <= format_spans[j].range.start

\* C10: every span of the collection has exactly one of bold, italic and underline
\* equal to Some(true), and the other two equal to None.
C10_SingleAttribute ==
    \A i \in 1..Len(format_spans) :
        /\ Cardinality({attr \in Attrs : format_spans[i][attr] = SomeTrue}) = 1
        /\ Cardinality({attr \in Attrs : format_spans[i][attr] = None}) = 2

\* An edit has left two spans that assert different attributes.
C10_Witness ==
    /\ last.op \in {"insert", "remove", "replace"}
    /\ Len(format_spans) = 2
    /\ \E attr \in Attrs :
        /\ format_spans[1][attr] = SomeTrue
        /\ format_spans[2][attr] = None
    /\ format_spans # prev

\* C11: after any sequence of inserts, removes, replaces and toggles over non-empty
\* ranges, every span of the collection has range.start < range.end.
C11_NoEmptySpan ==
    \A i \in 1..Len(format_spans) :
        format_spans[i].range.start < format_spans[i].range.end

\* A remove has collapsed a span to nothing, which is gone, and left another.
C11_Witness ==
    /\ last.op = "remove"
    /\ \E i \in 1..Len(prev) :
        range_is_empty(shift_by_delta(prev[i], last.range.start, -range_len(last.range)).range)
    /\ Len(format_spans) = 1
    /\ Len(prev) = 2

\* C12: after select_to(offset) on a selection with start <= end, start <= end
\* holds again; the two ends are swapped and `reversed` is flipped exactly when
\* moving the head to the offset made end < start.
C12_SelectToNormalizes ==
    (moves # <<>> /\ moves[1].op = "select_to") =>
        LET before == moves[1].before
            offset == moves[1].offset
            start == IF before.reversed THEN offset ELSE before.start
            end == IF before.reversed THEN before.end ELSE offset
        IN  /\ selection.start <= selection.end
            /\ IF end < start
               THEN /\ selection.start = end
                    /\ selection.end = start
                    /\ selection.reversed = ~before.reversed
               ELSE /\ selection.start = start
                    /\ selection.end = end
                    /\ selection.reversed = before.reversed

\* select_to has taken the head of a reversed, non-empty selection past its tail.
C12_Witness ==
    /\ moves # <<>>
    /\ moves[1].op = "select_to"
    /\ moves[1].before.reversed
    /\ moves[1].before.start < moves[1].before.end
    /\ moves[1].offset > moves[1].before.end
    /\ ~selection.reversed

\* The latest two operations of the editor are the same vertical move, each to the
\* neighbouring row.
TwoVerticalMoves(op, step) ==
    /\ Len(moves) = 2
    /\ moves[1].op = op
    /\ moves[2].op = op
    /\ offset_to_point(text, head(moves[1].before)).row
           = offset_to_point(text, head(moves[2].before)).row + step
    /\ offset_to_point(text, head(selection)).row
           = offset_to_point(text, head(moves[1].before)).row + step

\* The column the first of the two moves aims at.
FirstGoalColumn ==
    goal_column(move_goal(moves[2].before),
                offset_to_point(text, head(moves[2].before)))

\* C13: two consecutive move_down (or two consecutive move_up) that pass over a
\* line shorter than the column c the first one started from, onto a line of
\* length at least c, leave the cursor at column c of the final line.
C13_VerticalMovesRememberColumn ==
    \A op \in {"move_down", "move_up"} :
        (/\ TwoVerticalMoves(op, IF op = "move_down" THEN 1 ELSE -1)
         /\ line_len(text, offset_to_point(text, head(moves[1].before)).row)
                < FirstGoalColumn
         /\ line_len(text, offset_to_point(text, head(selection)).row)
                >= FirstGoalColumn)
            => /\ is_empty(selection)
               /\ offset_to_point(text, selection.end).column = FirstGoalColumn

\* The row and the column a vertical move starts from and aims at.
CallPoint == offset_to_point(text, call.offset)

CallColumn == goal_column(call.goal, CallPoint)

\* The row next to the one a vertical move starts from, in its direction.
CallTargetRow == IF call.fn = "up" THEN CallPoint.row - 1 ELSE CallPoint.row + 1

\* The vertical move starts from a row that has a row next to it in its direction.
FromNonEdgeRow ==
    \/ call.fn = "up" /\ CallPoint.row > 0
    \/ call.fn = "down" /\ CallPoint.row < rope_len_lines(text) - 1

\* C14: movement::down (up) from a row r that is not the last (first) one returns
\* the offset of the point (r+1 (r-1), min(c, line_len of that row)), where c is
\* the goal's column if the goal is a HorizontalPosition and the current column
\* otherwise, and returns HorizontalPosition(c) as the new goal.
C14_VerticalMoveTarget ==
    (call.fn \in {"up", "down"} /\ FromNonEdgeRow) =>
        LET column == Min(CallColumn, line_len(text, CallTargetRow))
        IN  /\ call.result[1] = rope_line_to_byte(text, CallTargetRow) + column
            /\ call.result[2] = HorizontalPosition(CallColumn)

\* down from column 1 of the first row, with no goal, has reached column 1 of a
\* longer second row; or up with a goal beyond the previous row has reached the
\* end of that row.
C14_Witness ==
    /\ FromNonEdgeRow
    /\ \/ /\ call.fn = "down"
          /\ call.goal = GoalNone
          /\ text = <<"a", "\n", "a", "a">>
          /\ call.offset = 1
          /\ call.result = <<3, HorizontalPosition(1)>>
       \/ /\ call.fn = "up"
          /\ call.goal = HorizontalPosition(2)
          /\ text = <<"a", "\n", "a", "a">>
          /\ call.offset = 2
          /\ call.result = <<1, HorizontalPosition(2)>>

\* The last row of the text.
LastRow == rope_len_lines(text) - 1

\* C15: up from row 0 returns the offset of the start of row 0, and down from the
\* last row returns the offset of the end of the last row, its line start plus its
\* line_len; both still return a HorizontalPosition goal.
C15_VerticalMoveAtEdge ==
    /\ (call.fn = "up" /\ CallPoint.row = 0) =>
          /\ call.result[1] = rope_line_to_byte(text, 0)
          /\ call.result[1] = 0
          /\ call.result[2] = HorizontalPosition(CallColumn)
    /\ (call.fn = "down" /\ CallPoint.row = LastRow) =>
          /\ call.result[1] = rope_line_to_byte(text, LastRow) + line_len(text, LastRow)
          /\ call.result[1] = len
          /\ call.result[2] = HorizontalPosition(CallColumn)

\* down has gone from inside the last row, which is not the first, to its end.
C15_Witness ==
    /\ call.fn = "down"
    /\ CallPoint.row = LastRow
    /\ LastRow > 0
    /\ call.offset < len
    /\ CallPoint.column > 0
    /\ call.result[1] = len

\* C16: movement::left returns None exactly when the offset is 0; from an offset
\* in 1..len it returns offset - 1 when the column is above 0, and otherwise the
\* offset of the end of the previous row, the point (r - 1, line_len(r - 1)).
C16_Left ==
    (call.fn = "left") =>
        LET point == offset_to_point(text, call.offset)
        IN  /\ (call.result = Nothing) <=> (call.offset = 0)
            /\ (call.offset > 0 /\ point.column > 0) =>
                   call.result = Some(call.offset - 1)
            /\ (call.offset > 0 /\ point.column = 0) =>
                   call.result = Some(rope_line_to_byte(text, point.row - 1)
                                          + line_len(text, point.row - 1))

\* left from the start of a row has skipped the two bytes of a CR LF.
C16_Witness ==
    /\ call.fn = "left"
    /\ call.offset > 0
    /\ offset_to_point(text, call.offset).column = 0
    /\ call.result = Some(call.offset - 2)

\* C17: movement::right returns None exactly when the offset is at or beyond len;
\* from an offset below len it returns offset + 1 when the column is below the
\* line_len of the row, and otherwise the offset of column 0 of the next row.
C17_Right ==
    (call.fn = "right") =>
        LET point == offset_to_point(text, call.offset)
        IN  /\ (call.result = Nothing) <=> (call.offset >= len)
            /\ (call.offset < len /\ point.column < line_len(text, point.row)) =>
                   call.result = Some(call.offset + 1)
            /\ (call.offset < len /\ point.column >= line_len(text, point.row)) =>
                   call.result = Some(rope_line_to_byte(text, point.row + 1))

\* right from the end of a line has skipped the two bytes of a CR LF.
C17_Witness ==
    /\ call.fn = "right"
    /\ call.offset < len
    /\ offset_to_point(text, call.offset).column
           = line_len(text, offset_to_point(text, call.offset).row)
    /\ call.result = Some(call.offset + 2)

\* C18: for every text and every offset o with 0 <= o <= len,
\* point_to_offset(offset_to_point(o)) = o.
C18_PointRoundTrip ==
    (call.fn = "offset_to_point") => call.result = call.offset

\* The round trip has gone through a point between the CR and the LF of the line
\* break of a row that is not the first.
C18_Witness ==
    /\ call.fn = "offset_to_point"
    /\ call.point.row > 0
    /\ call.point.column > line_len(text, call.point.row)
    /\ call.result = call.offset

\* C19: point_to_offset clamps a row beyond the last line to the last line, and a
\* column greater than the target line's byte length, its line_len (the text of
\* the line without its newline), to that length: the result is
\* line_start(row') + min(column, line_len(row')) and never lands on a following
\* line.
C19_PointToOffsetClamps ==
    (call.fn = "point_to_offset") =>
        LET row == Min(call.point.row, LastRow)
        IN  /\ call.result = rope_line_to_byte(text, row)
                                 + Min(call.point.column, line_len(text, row))
            /\ offset_to_point(text, call.result).row <= row

\* The UTF-16 offsets of the text that lie on a code-point boundary.
Utf16Boundaries == {rope_char_to_utf16_cu(text, c) : c \in 0..rope_len_chars(text)}

\* C20: for every text, with code points of one to four bytes and surrogate pairs
\* among them, and every UTF-16 offset u on a code-point boundary,
\* byte_to_utf16(utf16_to_byte(u)) = u.
C20_Utf16RoundTrip ==
    (call.fn = "utf16_to_byte" /\ call.offset \in Utf16Boundaries) =>
        call.result = call.offset

\* The round trip has gone through the boundary after a surrogate pair that
\* follows a code point of two or three bytes.
C20_Witness ==
    /\ call.fn = "utf16_to_byte"
    /\ call.offset \in Utf16Boundaries
    /\ call.offset = 3
    /\ call.byte \in {6, 7}
    /\ text[call.byte - 3] = "f0"
    /\ call.result = 3

\* The latest operation of the editor, when it has returned.
Returned(op) == moves # <<>> /\ moves[1].op = op /\ ~moves[1].panic

\* C21: after each of handle_input, backspace, delete, newline, move_left,
\* move_right, select_to and a mouse click (move_to) that returns, the goal of the
\* selection is SelectionGoal::None, whatever it was before.
C21_GoalReset ==
    \A op \in {"handle_input", "backspace", "delete", "newline", "move_left",
               "move_right", "select_to", "move_to"} :
        Returned(op) => selection.goal = GoalNone

\* backspace at offset 0, with nothing to delete, has reset a goal that held a
\* column.
C21_Witness ==
    /\ Returned("backspace")
    /\ moves[1].before.goal # GoalNone
    /\ moves[1].before.end = 0
    /\ text = moves[1].text
    /\ selection.goal = GoalNone

\* The operations of the editor that move the cursor or the selection.
MovementOps == {"move_left", "move_right", "move_up", "move_down", "select_to"}

\* C22: move_left, move_right, move_up, move_down and select_to leave the text of
\* the buffer, its byte length and its span collection as they were.
C22_MovementKeepsBuffer ==
    (moves # <<>> /\ moves[1].op \in MovementOps) =>
        /\ text = moves[1].text
        /\ Len(text) = Len(moves[1].text)
        /\ format_spans = moves[1].format_spans
        /\ ~moves[1].panic

\* A vertical move has moved the cursor over a text of two lines that has a span.
C22_Witness ==
    /\ moves # <<>>
    /\ moves[1].op \in {"move_up", "move_down"}
    /\ selection # moves[1].before
    /\ format_spans # <<>>
    /\ format_spans = moves[1].format_spans
    /\ text = moves[1].text

\* The text without its bytes from `start` up to `end`.
WithoutBytes(t, start, end) == SubSeq(t, 1, start) \o SubSeq(t, end + 1, Len(t))

\* The latest operation of the editor.
Latest(op) == moves # <<>> /\ moves[1].op = op

\* The latest operation has removed exactly the bytes from `start` up to `end`
\* and left a cursor at `start`.
RemovedBytes(start, end) ==
    /\ ~moves[1].panic
    /\ text = WithoutBytes(moves[1].text, start, end)
    /\ selection.start = start
    /\ selection.end = start

\* The latest operation has left the text and the ends of the selection as they
\* were.
NothingChanged ==
    /\ ~moves[1].panic
    /\ text = moves[1].text
    /\ selection.start = moves[1].before.start
    /\ selection.end = moves[1].before.end

\* C23: backspace with a cursor at offset k > 0 removes exactly byte k - 1 and
\* leaves a cursor at k - 1; with a non-empty selection [s, e) it removes exactly
\* [s, e) and leaves a cursor at s; with a cursor at offset 0 it leaves the text
\* and the cursor as they were.
C23_Backspace ==
    Latest("backspace") =>
        LET before == moves[1].before
        IN  IF ~is_empty(before) THEN RemovedBytes(before.start, before.end)
            ELSE IF before.start > 0 THEN RemovedBytes(before.start - 1, before.start)
            ELSE NothingChanged

\* C24: delete with a cursor at offset k < len removes exactly byte k and leaves
\* the cursor at k; with a non-empty selection [s, e) it removes exactly [s, e)
\* and leaves a cursor at s; with a cursor at offset len it leaves the text and
\* the cursor as they were.
C24_Delete ==
    Latest("delete") =>
        LET before == moves[1].before
        IN  IF ~is_empty(before) THEN RemovedBytes(before.start, before.end)
            ELSE IF before.end < Len(moves[1].text)
                 THEN RemovedBytes(before.end, before.end + 1)
            ELSE NothingChanged

\* C25: handle_input(new_text) with the selection [s, e) leaves the text
\* old[0..s] ++ new_text ++ old[e..] and a cursor at s + len(new_text).
C25_HandleInput ==
    Latest("handle_input") =>
        LET before == moves[1].before
            old == moves[1].text
            new_len == moves[1].offset
        IN  /\ ~moves[1].panic
            /\ Len(text) = Len(old) - (before.end - before.start) + new_len
            /\ SubSeq(text, 1, before.start) = SubSeq(old, 1, before.start)
            /\ SubSeq(text, before.start + new_len + 1, Len(text))
                   = SubSeq(old, before.end + 1, Len(old))
            /\ selection.start = before.start + new_len
            /\ selection.end = before.start + new_len

LineStartOf(t, offset) ==
    rope_line_to_byte(t, rope_byte_to_line(t, offset))

LineEndOf(t, offset) ==
    LineStartOf(t, offset) + line_len(t, rope_byte_to_line(t, offset))

\* C27: delete_to_end_of_line removes exactly the bytes from the cursor
\* (selection.start) up to but not including the newline of its line, leaves a
\* cursor at the same offset, changes no other line and not the line count; with
\* the cursor already at the end of its line nothing changes.
C27_DeleteToEndOfLine ==
    Latest("delete_to_end_of_line") =>
        LET at == moves[1].before.start
            old == moves[1].text
        IN  IF at = LineEndOf(old, at) THEN /\ NothingChanged
                                            /\ selection = moves[1].before
            ELSE /\ RemovedBytes(at, LineEndOf(old, at))
                 /\ rope_len_lines(text) = rope_len_lines(old)
                 /\ \A row \in 0..(rope_len_lines(old) - 1) :
                        row # rope_byte_to_line(old, at) =>
                            line(text, row) = line(old, row)

\* C28: delete_to_beginning_of_line removes exactly the bytes between the start
\* of the line of the cursor (selection.start) and the cursor, leaves a cursor at
\* the start of that line, changes no other line and not the line count; with the
\* cursor already at column 0 nothing changes.
C28_DeleteToBeginningOfLine ==
    Latest("delete_to_beginning_of_line") =>
        LET at == moves[1].before.start
            old == moves[1].text
        IN  IF at = LineStartOf(old, at) THEN /\ NothingChanged
                                              /\ selection = moves[1].before
            ELSE /\ RemovedBytes(LineStartOf(old, at), at)
                 /\ rope_len_lines(text) = rope_len_lines(old)
                 /\ \A row \in 0..(rope_len_lines(old) - 1) :
                        row # rope_byte_to_line(old, at) =>
                            line(text, row) = line(old, row)

\* The lengths of the spans that assert the attribute and overlap the range,
\* clipped to the range, summed.
RECURSIVE ClippedLength(_, _, _)
ClippedLength(spans, range, attr) ==
    IF spans = <<>> THEN 0
    ELSE LET span == Head(spans)
             clipped == Min(span.range.end, range.end) - Max(span.range.start, range.start)
         IN  (IF span[attr] = SomeTrue /\ clipped > 0 THEN clipped ELSE 0)
                 + ClippedLength(Tail(spans), range, attr)

\* C29: for every span collection, attribute A and range R, is_formatted_with(R, A)
\* is true if and only if R is non-empty and every byte offset of R is covered by
\* a span that asserts A; a gap in R makes it false, whatever the clipped lengths
\* of the A spans add up to.
C29_CoverageTestExact ==
    (call.fn = "is_formatted_with") =>
        (call.result <=>
            /\ call.range.start < call.range.end
            /\ \A k \in call.range.start..(call.range.end - 1) :
                   Effective(format_spans, call.attr, k))

\* The test has found a gap in a range although the clipped lengths of the spans
\* that assert the attribute add up to the length of the range or more.
C29_Witness ==
    /\ call.fn = "is_formatted_with"
    /\ ~call.result
    /\ call.range.start < call.range.end
    /\ ClippedLength(format_spans, call.range, call.attr) >= range_len(call.range)

\* C30: a toggle of attribute A over a non-empty range R changes A only inside R:
\* at every byte offset outside R the effective value of A after the toggle is
\* its value before.
C30_ToggleChangesOnlyInside ==
    (IsToggle /\ ~range_is_empty(last.range)) =>
        \A k \in Offsets \ Bytes(last.range) :
            Effective(format_spans, LastAttr, k) <=> Effective(prev, LastAttr, k)

\* A toggle has split a span that asserts the attribute and reaches out of the
\* range on both sides.
C30_Witness ==
    /\ IsToggle
    /\ ~rep
    /\ \E i \in 1..Len(prev) :
        /\ prev[i][LastAttr] = SomeTrue
        /\ prev[i].range.start < last.range.start
        /\ prev[i].range.end > last.range.end
    /\ Effective(format_spans, LastAttr, last.range.start - 1)
    /\ Effective(format_spans, LastAttr, last.range.end)
    /\ ~Effective(format_spans, LastAttr, last.range.start)

\* The latest call of the buffer.
Called(fn) == call # NoCall /\ call.fn = fn

\* ReadAttr(span, attr): the field of the span that holds the attribute.
ReadAttr(span, attr) ==
    IF attr = "bold" THEN span.bold
    ELSE IF attr = "italic" THEN span.italic
    ELSE span.underline

\* Where byte k of the text before the latest call is after it, when the call
\* has replaced call.range by call.new_text and k is outside that range.
NewOffset(k) ==
    IF k < call.range.start THEN k
    ELSE k - range_len(call.range) + Len(call.new_text)

\* The bytes of the span that the latest call has not removed.
Surviving(span) ==
    {k \in span.range.start..(span.range.end - 1) :
        k < call.range.start \/ k >= call.range.end}

\* The byte k of the text before the latest call is in the text at its new offset.
Survives(k) ==
    /\ NewOffset(k) < Len(text)
    /\ text[NewOffset(k) + 1] = call.text[k + 1]

\* C31: after Buffer::replace(range, new_text) with a range that overlaps a span
\* asserting an attribute without containing all of it, a span asserting the
\* attribute covers every surviving byte of that span at its new offset.
C31_PartialReplaceKeepsFormatting ==
    Called("replace") =>
        \A i \in 1..Len(call.format_spans), attr \in CoverageAttrs :
            LET S == call.format_spans[i]
            IN  (/\ ReadAttr(S, attr) = SomeTrue
                 /\ overlaps(S, call.range)
                 /\ ~(call.range.start <= S.range.start /\ S.range.end <= call.range.end))
                => /\ ~call.panic
                   /\ \E j \in 1..Len(format_spans) :
                        /\ ReadAttr(format_spans[j], attr) = SomeTrue
                        /\ \A k \in Surviving(S) :
                              /\ Survives(k)
                              /\ format_spans[j].range.start <= NewOffset(k)
                              /\ NewOffset(k) < format_spans[j].range.end

\* C32: after Buffer::remove(range) with a range within the text, every byte
\* outside the range is in the text at its shifted offset, and every attribute is
\* effective there exactly when it was effective at the byte before.
C32_RemoveKeepsFormatting ==
    Called("remove") =>
        /\ ~call.panic
        /\ \A k \in 0..(Len(call.text) - 1), attr \in CoverageAttrs :
              (k < call.range.start \/ k >= call.range.end) =>
                  /\ Survives(k)
                  /\ Effective(format_spans, attr, NewOffset(k))
                        <=> Effective(call.format_spans, attr, k)

\* C33: Buffer::insert(k, t) with 0 <= k <= len and a text t that is not empty,
\* followed by Buffer::remove(k..k+len(t)), leaves the text and the span
\* collection exactly as they were before the insert.
C33_InsertThenRemoveIsIdentity ==
    Called("insert_then_remove") =>
        /\ ~call.panic
        /\ text = call.text
        /\ format_spans = call.format_spans

\* C39: after any sequence of inserts, removes, replaces and toggles over ranges
\* within the text, every span of the collection ends within the text.
C39_SpansInsideText ==
    (call = NoCall \/ ~call.panic) =>
        \A i \in 1..Len(format_spans) : format_spans[i].range.end <= Len(text)

\* The latest n operations of the editor are all select_to.
SelectToRun(n) ==
    /\ n <= Len(moves)
    /\ \A i \in 1..n : moves[i].op = "select_to"

\* C37: after a select_to(offset), alone or at the end of a sequence of select_to
\* calls, the tail of the selection is the tail from before the sequence and its
\* head is the offset.
C37_SelectToKeepsAnchor ==
    \A n \in 1..2 :
        SelectToRun(n) =>
            /\ tail(selection) = tail(moves[n].before)
            /\ head(selection) = moves[1].offset

\* Two select_to calls in a row have taken the head over the tail and back: the
\* selection was reversed in between and is not reversed now.
C37_Witness ==
    /\ SelectToRun(2)
    /\ ~moves[2].before.reversed
    /\ moves[2].before.start < moves[2].before.end
    /\ moves[1].before.reversed
    /\ moves[1].before.start < moves[1].before.end
    /\ ~selection.reversed
    /\ selection.start < selection.end
    /\ tail(selection) = moves[2].before.start

\* C38: in every state the editor reaches by handle_input, backspace, delete,
\* delete_to_beginning_of_line, delete_to_end_of_line, newline, the four moves,
\* and select_to and move_to with offsets within the text, the selection has
\* 0 <= start <= end <= buffer.len().
C38_SelectionInsideBuffer ==
    /\ 0 <= selection.start
    /\ selection.start <= selection.end
    /\ selection.end <= Len(text)

\* delete with the cursor before a code point of two bytes has returned: the
\* text is two bytes shorter and the cursor is at its end.
C38_Witness ==
    /\ Returned("delete")
    /\ Len(moves[1].text) - Len(text) = 2
    /\ selection.start = Len(text)
    /\ selection.end = Len(text)
    /\ Len(text) > 0

\* C40: on a fixed buffer, movement::right from an offset below len returns a
\* larger offset and movement::left from an offset above 0 a smaller one, so
\* repeated move_right reaches len and repeated move_left reaches 0; at len and
\* at 0 they return None and the cursor stays.
C40_HorizontalMovesProgress ==
    /\ (call.fn = "right") =>
          IF call.offset < len
          THEN call.result # Nothing /\ call.result[1] > call.offset
          ELSE call.result = Nothing
    /\ (call.fn = "left") =>
          IF call.offset > 0
          THEN call.result # Nothing /\ call.result[1] < call.offset
          ELSE call.result = Nothing

\* C34: whenever the editor holds a marked range, Some(m), m.start <= m.end and
\* m.end <= buffer.len(), after any sequence of operations of the input method
\* and of the editor.
C34_MarkedRangeInsideBuffer ==
    (~Panicked /\ marked_range # Nothing) =>
        /\ marked_range[1].start <= marked_range[1].end
        /\ marked_range[1].end <= Len(text)

\* The arguments of the latest operation of the input method.
ImeArgs == moves[1].offset

\* The byte offset at which the latest operation of the input method has put its
\* text: the start of the range it was given, or else of the selection.
ReplacementStart ==
    IF ImeArgs.range_utf16 # Nothing
    THEN utf16_to_byte(moves[1].text, ImeArgs.range_utf16[1].start)
    ELSE moves[1].before.start

\* C35: after replace_and_mark_text_in_range(range, new_text, Some(m)) with m a
\* range of UTF-16 code units within new_text, the marked range is the byte
\* range of that part of new_text in the buffer: the start of the replacement
\* plus the UTF-8 byte offsets of m.start and m.end within new_text.
C35_MarkedRangeInBytes ==
    (Returned("replace_and_mark_text_in_range") /\ ImeArgs.new_selection # Nothing) =>
        LET m == ImeArgs.new_selection[1]
        IN  /\ marked_range # Nothing
            /\ marked_range[1].start = ReplacementStart + utf16_to_byte(ImeArgs.new_text, m.start)
            /\ marked_range[1].end = ReplacementStart + utf16_to_byte(ImeArgs.new_text, m.end)

\* The latest operation has replaced exactly the bytes from `start` up to `end`
\* by `new_text` and left a cursor after the new text.
ReplacedBytes(start, end, new_text) ==
    /\ ~moves[1].panic
    /\ text = SubSeq(moves[1].text, 1, start) \o new_text
                \o SubSeq(moves[1].text, end + 1, Len(moves[1].text))
    /\ selection.start = start + Len(new_text)
    /\ selection.end = start + Len(new_text)

\* C36: replace_text_in_range(None, text) replaces exactly the bytes of the
\* marked range when there is one, and of the selection otherwise, leaves a
\* cursor after the new text and no marked range; unmark_text clears the marked
\* range and leaves the text and the selection as they were.
C36_ImeCommit ==
    /\ (Latest("replace_text_in_range") /\ ImeArgs.range_utf16 = Nothing) =>
          LET replaced == IF moves[1].marked_range # Nothing
                          THEN moves[1].marked_range[1]
                          ELSE moves[1].before
          IN  /\ ReplacedBytes(replaced.start, replaced.end, ImeArgs.new_text)
              /\ marked_range = Nothing
    /\ Latest("unmark_text") =>
          /\ marked_range = Nothing
          /\ text = moves[1].text
          /\ selection = moves[1].before

====
